---- MODULE Spec2Model ----
(***************************************************************************)
(* King of Tokyo (simplified): the Game object of                          *)
(* kingoftokyo_alpha_0.0.1.rs (players, tokyo_controller_id), its three    *)
(* operations apply_tokyo_control_points, process_roll and                 *)
(* check_victory_condition, and the turn loop of main.                     *)
(*                                                                         *)
(* Six specifications:                                                     *)
(*   Spec       any sequence of calls of the three operations on a Game,   *)
(*              any registered player active, any console line;            *)
(*   SpecMain   the turn loop of main;                                     *)
(*   SpecMainLate  the turn loop of main close to the turn limit;          *)
(*   SpecRoll   one process_roll call with any of the 6^6 rolls;           *)
(*   SpecState  one call on any of the states calls can leave behind;      *)
(*   SpecAnswer one process_roll call with any answer at the console.      *)
(***************************************************************************)
EXTENDS Naturals, Integers, Sequences, FiniteSets, TLC

\* ------------------------------------------------------------------ bounds
\* number of players of the game (main accepts 2..6)
NumPlayers == 3
\* number of operations explored from the initial state
MaxCalls == 3
\* number of turns of the main loop explored from the initial state
MaxTurns == 6

\* --------------------------------------------------------- program constants
max_hp == 12
max_vp == 20
StartHp == 10
U8Max == 255
NumDice == 6
TurnLimit == 1000

\* Option<u32>::None for tokyo_controller_id; player ids start at 1
NoneId == 0

Players == 1..NumPlayers

DieResult == {"One", "Two", "Three", "Energy", "Claw", "Heart"}

VARIABLES
    hp,                    \* players[i].hp
    victory_points,        \* players[i].victory_points
    energy,                \* players[i].energy
    tokyo_controller_id,   \* Game.tokyo_controller_id (NoneId = None)
    pc,                    \* position in main ("api" under Spec)
    current_player_index,  \* main: current_player_index (0-based)
    turn_count,            \* main: turn_count
    last,                  \* the last operation: its inputs, the state before it, what it printed/asked
    outcome,               \* result of the last check_victory_condition
    calls                  \* operations (Spec) or turns (SpecMain) so far

vars == <<hp, victory_points, energy, tokyo_controller_id, pc,
          current_player_index, turn_count, last, outcome, calls>>

\* ------------------------------------------------------------ u8 arithmetic
saturating_add(a, b) == IF a + b > U8Max THEN U8Max ELSE a + b

\* mutant: the subtraction wraps around as u8 does without saturating_sub
wrapping_sub(a, b) == (a - b + U8Max + 1) % (U8Max + 1)

saturating_sub(a, b) == IF a - b < 0 THEN 0 ELSE a - b

min(a, b) == IF a <= b THEN a ELSE b

\* ------------------------------------------------------------ console input
\* a console line is a sequence of ASCII codes
IsWhitespace(c) == c \in {9, 10, 11, 12, 13, 32}

RECURSIVE trim_start(_)
trim_start(s) ==
    IF s # <<>> /\ IsWhitespace(Head(s)) THEN trim_start(Tail(s)) ELSE s

RECURSIVE trim_end(_)
trim_end(s) ==
    IF s # <<>> /\ IsWhitespace(s[Len(s)])
    THEN trim_end(SubSeq(s, 1, Len(s) - 1))
    ELSE s

\* read_line_input: the line read from stdin, trimmed
read_line_input(line) == trim_end(trim_start(line))

to_ascii_lowercase(c) == IF c \in 65..90 THEN c + 32 ELSE c

\* mutant: the comparison is the plain == of strings, case and all
eq_case_sensitive(s, t) == s = t

eq_ignore_ascii_case(s, t) ==
    /\ Len(s) = Len(t)
    /\ \A i \in 1..Len(s) : to_ascii_lowercase(s[i]) = to_ascii_lowercase(t[i])

StrY == <<121>>
StrN == <<110>>

\* the lines the driver may type: "y\n" "N\n" "\n"
Lines == { <<121, 10>>, <<78, 10>>, <<10>> }

\* --------------------------------------------------------------------- dice
\* the rolls explored by Spec and SpecMain
Rolls == {
    <<"One", "One", "One", "Energy", "Claw", "Heart">>,
    <<"Claw", "Claw", "Claw", "Claw", "Claw", "Claw">>,
    <<"Three", "Three", "Three", "Three", "Heart", "Heart">>,
    <<"One", "One", "One", "Two", "Two", "Two">> }

\* the rolls explored by SpecMain
MainRolls == {
    <<"One", "One", "One", "Energy", "Claw", "Heart">>,
    <<"Claw", "Claw", "Claw", "Claw", "Claw", "Claw">>,
    <<"Three", "Three", "Three", "Three", "Heart", "Heart">> }

\* tally of one face in a roll
counts(results, face) == Cardinality({i \in DOMAIN results : results[i] = face})

\* mutant: every die beyond the third adds a point (the board game's rule)
matched_numbers_extra(results) ==
      (IF counts(results, "One") >= 3 THEN 1 + (counts(results, "One") - 3) ELSE 0)
    + (IF counts(results, "Two") >= 3 THEN 2 + (counts(results, "Two") - 3) ELSE 0)
    + (IF counts(results, "Three") >= 3 THEN 3 + (counts(results, "Three") - 3) ELSE 0)

matched_numbers(results) ==
      (IF counts(results, "One") >= 3 THEN 1 ELSE 0)
    + (IF counts(results, "Two") >= 3 THEN 2 ELSE 0)
    + (IF counts(results, "Three") >= 3 THEN 3 ELSE 0)

\* ------------------------------------------------------------ the Game object
\* A game value: the players' fields indexed by player id (players[i].id = i+1),
\* the zone occupant, and the decision queries asked so far by the running call.
Game(h, v, e, t) ==
    [hp |-> h, victory_points |-> v, energy |-> e, tokyo_controller_id |-> t,
     queries |-> <<>>]

\* Game::new: every player at 10 hp, 0 victory points, 0 energy; Tokyo vacant
NewGame ==
    Game([p \in Players |-> StartHp], [p \in Players |-> 0],
         [p \in Players |-> 0], NoneId)

\* mutant: the controller's +2 victory points are not capped at max_vp
apply_tokyo_control_points_uncapped(g) ==
    IF g.tokyo_controller_id # NoneId /\ g.tokyo_controller_id \in Players
    THEN [g EXCEPT !.victory_points[g.tokyo_controller_id] = saturating_add(@, 2)]
    ELSE g

\* apply_tokyo_control_points: +2 victory points to the controller, capped
apply_tokyo_control_points(g) ==
    IF g.tokyo_controller_id # NoneId /\ g.tokyo_controller_id \in Players
    THEN [g EXCEPT !.victory_points[g.tokyo_controller_id] =
                       min(saturating_add(@, 2), max_vp)]
    ELSE g

\* process_roll, step 1: matched numbers
score_matched(g, player_id, results) ==
    LET m == matched_numbers(results)
    IN  IF m > 0
        THEN [g EXCEPT !.victory_points[player_id] =
                           min(saturating_add(@, m), max_vp)]
        ELSE g

\* mutant: the energy is added as a plain u8 addition that wraps around
gain_energy_wrapping(g, player_id, results) ==
    LET energy_count == counts(results, "Energy")
    IN  IF energy_count > 0
        THEN [g EXCEPT !.energy[player_id] = (@ + energy_count) % (U8Max + 1)]
        ELSE g

\* process_roll, step 2: energy
gain_energy(g, player_id, results) ==
    LET energy_count == counts(results, "Energy")
    IN  IF energy_count > 0
        THEN [g EXCEPT !.energy[player_id] = saturating_add(@, energy_count)]
        ELSE g

\* mutant: hearts heal in Tokyo too
gain_hearts_anywhere(g, player_id, results, player_is_in_tokyo) ==
    LET heart_count == counts(results, "Heart")
    IN  IF heart_count > 0
        THEN [g EXCEPT !.hp[player_id] =
                           min(saturating_add(@, heart_count), max_hp)]
        ELSE g

\* process_roll, step 2: hearts (ignored in Tokyo)
gain_hearts(g, player_id, results, player_is_in_tokyo) ==
    LET heart_count == counts(results, "Heart")
    IN  IF heart_count > 0 /\ ~player_is_in_tokyo
        THEN [g EXCEPT !.hp[player_id] =
                           min(saturating_add(@, heart_count), max_hp)]
        ELSE g

\* mutant: the attack from Tokyo hurts the attacker too
attack_everybody(g, player_id, claw_count) ==
    [g EXCEPT !.hp = [p \in Players |-> saturating_sub(g.hp[p], claw_count)]]

\* process_roll, step 3, player in Tokyo: damage to every other player
attack_from_tokyo(g, player_id, claw_count) ==
    [g EXCEPT !.hp =
        [p \in Players |->
            IF p # player_id /\ g.tokyo_controller_id # p
            THEN saturating_sub(g.hp[p], claw_count)
            ELSE g.hp[p]]]

\* a decision query: the prompt kind, the line typed, and the state it is asked in
Query(kind, line, g) ==
    [kind |-> kind, line |-> line, hp |-> g.hp,
     tokyo_controller_id |-> g.tokyo_controller_id]

\* mutant: Tokyo is vacated after the attack whatever the answer
concede_whatever_answer(g, player_id, stdin) ==
    [g EXCEPT !.queries = Append(@, Query("concede_after_attack", stdin[1], g)),
              !.tokyo_controller_id = NoneId]

\* process_roll, step 3, player in Tokyo: CONCEDE Tokyo? (y/N) after the attack
concede_after_attack(g, player_id, stdin) ==
    LET input == read_line_input(stdin[1])
        asked == [g EXCEPT !.queries = Append(@, Query("concede_after_attack", stdin[1], g))]
    IN  IF eq_ignore_ascii_case(input, StrY)
        THEN [asked EXCEPT !.tokyo_controller_id = NoneId]
        ELSE asked

\* mutant: entering Tokyo gives no victory point
enter_tokyo_unpaid(g, player_id, line) ==
    LET input == read_line_input(line)
        asked == [g EXCEPT !.queries = Append(@, Query("enter", line, g))]
    IN  IF ~eq_ignore_ascii_case(input, StrN)
        THEN [asked EXCEPT !.tokyo_controller_id = player_id]
        ELSE asked

\* process_roll, step 3: ENTER Tokyo? (Y/n), asked when should_enter
enter_tokyo(g, player_id, line) ==
    LET input == read_line_input(line)
        asked == [g EXCEPT !.queries = Append(@, Query("enter", line, g))]
    IN  IF ~eq_ignore_ascii_case(input, StrN)
        THEN [asked EXCEPT !.tokyo_controller_id = player_id,
                           !.victory_points[player_id] =
                               min(saturating_add(@, 1), max_vp)]
        ELSE asked

\* mutant: a refused challenge still hurts the controller by one point
contest_tokyo_hurting(g, player_id, stdin) ==
    LET current_controller == g.tokyo_controller_id
    IN  IF current_controller # NoneId
        THEN LET input == read_line_input(stdin[1])
                 asked == [g EXCEPT !.queries =
                              Append(@, Query("concede_to_challenge", stdin[1], g))]
             IN  IF eq_ignore_ascii_case(input, StrY)
                 THEN enter_tokyo([asked EXCEPT !.tokyo_controller_id = NoneId],
                                  player_id, stdin[2])
                 ELSE [asked EXCEPT !.hp[current_controller] = saturating_sub(@, 1)]
        ELSE enter_tokyo(g, player_id, stdin[1])

\* process_roll, step 3, player outside Tokyo: contest or enter
contest_tokyo(g, player_id, stdin) ==
    LET current_controller == g.tokyo_controller_id
    IN  IF current_controller # NoneId
        THEN LET input == read_line_input(stdin[1])
                 asked == [g EXCEPT !.queries =
                              Append(@, Query("concede_to_challenge", stdin[1], g))]
             IN  IF eq_ignore_ascii_case(input, StrY)
                 THEN enter_tokyo([asked EXCEPT !.tokyo_controller_id = NoneId],
                                  player_id, stdin[2])
                 ELSE asked
        ELSE enter_tokyo(g, player_id, stdin[1])

\* mutant: the occupant's roll goes to the attack step whatever the Claw count
process_roll_always_attacking(g, player_id, results, stdin) ==
    LET player_is_in_tokyo == g.tokyo_controller_id = player_id
        g1 == score_matched(g, player_id, results)
        g2 == gain_energy(g1, player_id, results)
        g3 == gain_hearts(g2, player_id, results, player_is_in_tokyo)
        claw_count == counts(results, "Claw")
    IN  IF player_is_in_tokyo
        THEN concede_after_attack(attack_from_tokyo(g3, player_id, claw_count),
                                  player_id, stdin)
        ELSE IF claw_count > 0
        THEN contest_tokyo(g3, player_id, stdin)
        ELSE g3

\* mutant: a controller found with 0 hp at the end of the roll leaves Tokyo
process_roll_vacating_dead(g, player_id, results, stdin) ==
    LET player_is_in_tokyo == g.tokyo_controller_id = player_id
        g1 == score_matched(g, player_id, results)
        g2 == gain_energy(g1, player_id, results)
        g3 == gain_hearts(g2, player_id, results, player_is_in_tokyo)
        claw_count == counts(results, "Claw")
        g4 == IF claw_count > 0
              THEN IF player_is_in_tokyo
                   THEN concede_after_attack(attack_from_tokyo(g3, player_id, claw_count),
                                             player_id, stdin)
                   ELSE contest_tokyo(g3, player_id, stdin)
              ELSE g3
    IN  IF g4.tokyo_controller_id # NoneId /\ g4.hp[g4.tokyo_controller_id] = 0
        THEN [g4 EXCEPT !.tokyo_controller_id = NoneId]
        ELSE g4

\* process_roll(player_id, results), reading its answers from stdin
process_roll(g, player_id, results, stdin) ==
    LET player_is_in_tokyo == g.tokyo_controller_id = player_id
        g1 == score_matched(g, player_id, results)
        g2 == gain_energy(g1, player_id, results)
        g3 == gain_hearts(g2, player_id, results, player_is_in_tokyo)
        claw_count == counts(results, "Claw")
    IN  IF claw_count > 0
        THEN IF player_is_in_tokyo
             THEN concede_after_attack(attack_from_tokyo(g3, player_id, claw_count),
                                       player_id, stdin)
             ELSE contest_tokyo(g3, player_id, stdin)
        ELSE g3

\* check_victory_condition: the players with hp > 0, in registry order
active_players(g) == SelectSeq([i \in 1..NumPlayers |-> i], LAMBDA p : g.hp[p] > 0)

\* Iterator::find: index of the first element satisfying the test, 0 if none
RECURSIVE find_vp(_, _, _)
find_vp(g, seq, i) ==
    IF i > Len(seq) THEN 0
    ELSE IF g.victory_points[seq[i]] >= max_vp THEN i
    ELSE find_vp(g, seq, i + 1)

\* mutant: the score victory is looked for among all players, dead ones too
check_victory_among_all(g) ==
    LET act == active_players(g)
        all == [i \in 1..NumPlayers |-> i]
        w == find_vp(g, all, 1)
    IN  IF w # 0 THEN [kind |-> "vp", winner |-> all[w]]
        ELSE IF Len(act) <= 1
             THEN IF act # <<>>
                  THEN [kind |-> "last", winner |-> act[1]]
                  ELSE [kind |-> "draw", winner |-> NoneId]
             ELSE [kind |-> "none", winner |-> NoneId]

\* mutant: a single survivor is not recognised (len() < 1 for len() <= 1)
check_victory_nobody_last(g) ==
    LET act == active_players(g)
        w == find_vp(g, act, 1)
    IN  IF w # 0 THEN [kind |-> "vp", winner |-> act[w]]
        ELSE IF Len(act) < 1
             THEN [kind |-> "draw", winner |-> NoneId]
             ELSE [kind |-> "none", winner |-> NoneId]

\* check_victory_condition: the message returned, as (kind, the player named)
check_victory_condition(g) ==
    LET act == active_players(g)
        w == find_vp(g, act, 1)
    IN  IF w # 0 THEN [kind |-> "vp", winner |-> act[w]]
        ELSE IF Len(act) <= 1
             THEN IF act # <<>>
                  THEN [kind |-> "last", winner |-> act[1]]
                  ELSE [kind |-> "draw", winner |-> NoneId]
             ELSE [kind |-> "none", winner |-> NoneId]

NoOutcome == [kind |-> "none", winner |-> NoneId]

\* --------------------------------------------------------------- the state
CurrentGame == Game(hp, victory_points, energy, tokyo_controller_id)

\* the record kept of an operation: what it was called with, the state before
\* it, the queries it asked and the score it printed after the matched numbers
Op(name, player_id, results, before, queries, vp_after_match) ==
    [op |-> name, player_id |-> player_id, results |-> results,
     before |-> before, queries |-> queries, vp_after_match |-> vp_after_match]

NoOp == Op("none", NoneId, <<>>, NewGame, <<>>, 0)

\* the new Game state is g
Becomes(g) ==
    /\ hp' = g.hp
    /\ victory_points' = g.victory_points
    /\ energy' = g.energy
    /\ tokyo_controller_id' = g.tokyo_controller_id

DoApply(active_id) ==
    /\ Becomes(apply_tokyo_control_points(CurrentGame))
    /\ last' = Op("apply_tokyo_control_points", active_id, <<>>, CurrentGame, <<>>, 0)

DoProcessRoll(player_id, results, stdin) ==
    LET g == process_roll(CurrentGame, player_id, results, stdin)
    IN  /\ Becomes(g)
        /\ last' = Op("process_roll", player_id, results, CurrentGame, g.queries,
                      score_matched(CurrentGame, player_id, results).victory_points[player_id])

\* the number of lines process_roll reads from stdin: one per query it can reach
lines_read(g, player_id, results) ==
    IF counts(results, "Claw") = 0 THEN 0
    ELSE IF g.tokyo_controller_id = player_id \/ g.tokyo_controller_id = NoneId THEN 1
    ELSE 2

\* what the driver types during a call: a line for every prompt that can come
\* (a line that is never read stays in stdin; it is shown as the empty line)
Stdin(n) ==
    {stdin \in Lines \X Lines : \A i \in 1..2 : i > n => stdin[i] = <<10>>}

DoCheck ==
    /\ outcome' = check_victory_condition(CurrentGame)
    /\ last' = Op("check_victory_condition", NoneId, <<>>, CurrentGame, <<>>, 0)

\* A game in progress in which so far only numbers and energy were rolled
\* (nobody was hurt, nobody entered Tokyo): a new game, and a game after
\* level.rounds rounds with the scores and the energy close to their limits.
\* Under Spec nobody asks for the victory check, so a score of 20 can stand.
StartLevels ==
    { [vp |-> [p \in Players |-> 0], energy |-> 0, rounds |-> 0],
      [vp |-> [p \in Players |-> 21 - p], energy |-> 254, rounds |-> 50] }

\* The same for the loop of main, where the game goes on only below 20.
MainStartLevels ==
    { [vp |-> [p \in Players |-> 0], energy |-> 0, rounds |-> 0],
      [vp |-> [p \in Players |-> 18], energy |-> 254, rounds |-> 50] }

InitGame(level, controller) ==
    /\ hp = [p \in Players |-> StartHp]
    /\ victory_points = level.vp
    /\ energy = [p \in Players |-> level.energy]
    /\ tokyo_controller_id = controller
    /\ last = NoOp
    /\ outcome = NoOutcome
    /\ calls = 0

\* ------------------------------------------------ Spec: any sequence of calls
Init ==
    /\ \E level \in StartLevels : InitGame(level, NoneId)
    /\ pc = "api"
    /\ current_player_index = 0
    /\ turn_count = 1

ApplyTokyoControlPoints ==
    /\ pc = "api"
    /\ calls < MaxCalls
    /\ DoApply(NoneId)
    /\ calls' = calls + 1
    /\ UNCHANGED <<pc, current_player_index, turn_count, outcome>>

ProcessRoll ==
    /\ pc = "api"
    /\ calls < MaxCalls
    /\ \E player_id \in Players, results \in Rolls :
          \E stdin \in Stdin(lines_read(CurrentGame, player_id, results)) :
             DoProcessRoll(player_id, results, stdin)
    /\ calls' = calls + 1
    /\ UNCHANGED <<pc, current_player_index, turn_count, outcome>>

CheckVictoryCondition ==
    /\ pc = "api"
    /\ DoCheck
    /\ UNCHANGED <<hp, victory_points, energy, tokyo_controller_id, pc,
                   current_player_index, turn_count, calls>>

Next == ApplyTokyoControlPoints \/ ProcessRoll \/ CheckVictoryCondition

Spec == Init /\ [][Next]_vars

\* ------------------------------------------------- SpecMain: the loop of main
\* one turn of the loop for a live player with no victory outcome: the passive
\* Tokyo VP, then process_roll on the dice results with the answers of stdin
PlayTurn(g, player_id, results, stdin) ==
    LET g1 == process_roll(apply_tokyo_control_points(g), player_id, results, stdin)
    IN  Game(g1.hp, g1.victory_points, g1.energy, g1.tokyo_controller_id)

\* the dice of the first round of the game in progress below: player 1 rolls
\* six Claws, the last player four Threes and two Hearts, the others nothing
\* that counts
OpeningRoll(p) ==
    IF p = 1 THEN <<"Claw", "Claw", "Claw", "Claw", "Claw", "Claw">>
    ELSE IF p = NumPlayers
         THEN <<"Three", "Three", "Three", "Three", "Heart", "Heart">>
    ELSE <<"One", "One", "Two", "Two", "Three", "Three">>

\* the turns of players p..NumPlayers, every query answered with the empty line
RECURSIVE PlayRound(_, _)
PlayRound(g, p) ==
    IF p > NumPlayers THEN g
    ELSE PlayRound(PlayTurn(g, p, OpeningRoll(p), <<<<10>>, <<10>>>>), p + 1)

\* A game in progress after NumPlayers + 1 turns: player 1 entered Tokyo in the
\* first turn, and in the second round attacked with six Claws and stayed.
\* Before that the game may have gone through rounds in which nobody rolled
\* anything that counts; they show in turn_count only.
MidGame == PlayTurn(PlayRound(NewGame, 1), 1, OpeningRoll(1), <<<<10>>, <<10>>>>)

InitMidGame(rounds) ==
    /\ hp = MidGame.hp
    /\ victory_points = MidGame.victory_points
    /\ energy = MidGame.energy
    /\ tokyo_controller_id = MidGame.tokyo_controller_id
    /\ last = NoOp
    /\ outcome = NoOutcome
    /\ calls = 0
    /\ turn_count = NumPlayers * rounds + NumPlayers + 2
    /\ current_player_index = 1

InitMain ==
    /\ \/ /\ \E level \in MainStartLevels :
                /\ InitGame(level, NoneId)
                /\ turn_count = 1 + NumPlayers * level.rounds
          /\ current_player_index = 0
       \/ InitMidGame(0)
    /\ pc = "top"

\* current_player_index %= game.players.len()
player_index == current_player_index % NumPlayers

\* game.players[player_index].id
current_player_id == player_index + 1

\* mutant: the skip step does not move on to the next player
MainSkipDeadStuck ==
    /\ pc = "top"
    /\ hp[current_player_id] = 0
    /\ current_player_index' = player_index
    /\ UNCHANGED <<hp, victory_points, energy, tokyo_controller_id, pc,
                   turn_count, last, outcome, calls>>

\* Skip dead players
MainSkipDead ==
    /\ pc = "top"
    /\ hp[current_player_id] = 0
    /\ current_player_index' = player_index + 1
    /\ UNCHANGED <<hp, victory_points, energy, tokyo_controller_id, pc,
                   turn_count, last, outcome, calls>>

\* mutant: the turn is played whatever the hp of the current player
MainApplyTokyoControlPointsAnyPlayer ==
    /\ pc = "top"
    /\ calls < MaxTurns
    /\ DoApply(current_player_id)
    /\ current_player_index' = player_index
    /\ pc' = "check1"
    /\ calls' = calls + 1
    /\ UNCHANGED <<turn_count, outcome>>

\* 1. passive Tokyo VP
MainApplyTokyoControlPoints ==
    /\ pc = "top"
    /\ hp[current_player_id] # 0
    /\ calls < MaxTurns
    /\ DoApply(current_player_id)
    /\ current_player_index' = player_index
    /\ pc' = "check1"
    /\ calls' = calls + 1
    /\ UNCHANGED <<turn_count, outcome>>

\* mutant: the victory check after Tokyo VP does not break out of the loop
MainCheckAfterTokyoNoBreak ==
    /\ pc = "check1"
    /\ DoCheck
    /\ pc' = "roll"
    /\ UNCHANGED <<hp, victory_points, energy, tokyo_controller_id,
                   current_player_index, turn_count, calls>>

\* 2. victory check after Tokyo VP
MainCheckAfterTokyo ==
    /\ pc = "check1"
    /\ DoCheck
    /\ pc' = IF outcome'.kind # "none" THEN "over_after_tokyo" ELSE "roll"
    /\ UNCHANGED <<hp, victory_points, energy, tokyo_controller_id,
                   current_player_index, turn_count, calls>>

\* 3. roll_dice, 4. process_roll
MainProcessRoll ==
    /\ pc = "roll"
    /\ \E results \in MainRolls :
          \E stdin \in Stdin(lines_read(CurrentGame, current_player_id, results)) :
             DoProcessRoll(current_player_id, results, stdin)
    /\ pc' = "check2"
    /\ UNCHANGED <<current_player_index, turn_count, outcome, calls>>

\* 5. victory check after the roll, then on to the next player
MainCheckAfterRoll ==
    /\ pc = "check2"
    /\ DoCheck
    /\ IF outcome'.kind # "none"
       THEN /\ pc' = "over_after_roll"
            /\ UNCHANGED <<current_player_index, turn_count>>
       ELSE /\ current_player_index' = current_player_index + 1
            /\ turn_count' = turn_count + 1
            /\ pc' = IF turn_count' > TurnLimit THEN "over_turn_limit" ELSE "top"
    /\ UNCHANGED <<hp, victory_points, energy, tokyo_controller_id, calls>>

NextMain ==
    \/ MainSkipDead
    \/ MainApplyTokyoControlPoints
    \/ MainCheckAfterTokyo
    \/ MainProcessRoll
    \/ MainCheckAfterRoll

SpecMain == InitMain /\ [][NextMain]_vars

\* ------------------------ SpecMainLate: the last turns before the turn limit
\* the rounds without effect after which a game that would be at turn t is
\* within MaxTurns turns of the limit
LateRounds(t) == (TurnLimit - MaxTurns + 1 - t + NumPlayers - 1) \div NumPlayers

InitMainLate ==
    /\ \/ /\ InitGame([vp |-> [p \in Players |-> 0], energy |-> 0, rounds |-> 0], NoneId)
          /\ turn_count = 1 + NumPlayers * LateRounds(1)
          /\ current_player_index = 0
       \/ InitMidGame(LateRounds(NumPlayers + 2))
    /\ pc = "top"

\* main is sequential: with every query answered the loop takes its next step
SpecMainLate == InitMainLate /\ [][NextMain]_vars /\ WF_vars(NextMain)

\* --------------------------------- SpecRoll: one process_roll call, any roll
\* every roll roll_dice can return: six dice, each any of the six faces
AllRolls == [1..NumDice -> DieResult]

InitRoll ==
    /\ \E level \in StartLevels : InitGame(level, NoneId)
    /\ pc = "roll"
    /\ current_player_index = 0
    /\ turn_count = 1

ProcessAnyRoll ==
    /\ pc = "roll"
    /\ \E player_id \in Players, results \in AllRolls :
          \E stdin \in Stdin(lines_read(CurrentGame, player_id, results)) :
             DoProcessRoll(player_id, results, stdin)
    /\ pc' = "rolled"
    /\ calls' = calls + 1
    /\ UNCHANGED <<current_player_index, turn_count, outcome>>

NextRoll == ProcessAnyRoll

SpecRoll == InitRoll /\ [][NextRoll]_vars

\* ------------- SpecState: one call on any of the states calls can leave behind
\* Every player has entered Tokyo at some time (a score of 1 at least, raised
\* by matched Ones), was hit by the Claws of whoever held Tokyo and healed
\* outside it; the last to enter may still hold Tokyo. Dead players included:
\* process_roll does not look at the hp of the player it is called for.
StateHp == {0, 4, StartHp}
StateVp == {1, 19, max_vp}

InitState ==
    /\ hp \in [Players -> StateHp]
    /\ victory_points \in [Players -> StateVp]
    /\ energy = [p \in Players |-> 0]
    /\ tokyo_controller_id \in Players \cup {NoneId}
    /\ last = NoOp
    /\ outcome = NoOutcome
    /\ calls = 0
    /\ pc = "state"
    /\ current_player_index = 0
    /\ turn_count = 1

StateProcessRoll ==
    /\ pc = "state"
    /\ \E player_id \in Players, results \in Rolls :
          \E stdin \in Stdin(lines_read(CurrentGame, player_id, results)) :
             DoProcessRoll(player_id, results, stdin)
    /\ pc' = "rolled"
    /\ calls' = calls + 1
    /\ UNCHANGED <<current_player_index, turn_count, outcome>>

StateApplyTokyoControlPoints ==
    /\ pc = "state"
    /\ DoApply(NoneId)
    /\ pc' = "applied"
    /\ calls' = calls + 1
    /\ UNCHANGED <<current_player_index, turn_count, outcome>>

StateCheckVictoryCondition ==
    /\ pc \in {"state", "applied", "rolled"}
    /\ DoCheck
    /\ pc' = "checked"
    /\ UNCHANGED <<hp, victory_points, energy, tokyo_controller_id,
                   current_player_index, turn_count, calls>>

NextState ==
    \/ StateApplyTokyoControlPoints
    \/ StateProcessRoll
    \/ StateCheckVictoryCondition

SpecState == InitState /\ [][NextState]_vars

\* ----------------- SpecAnswer: one process_roll call, any answer at the console
\* the lines the driver may type at a query:
\* "y\n" "Y\n" " y \n" "n\n" "N\n" " n \n" "\n" "yes\n" "no\n" "x\n"
AnswerLines == {
    <<121, 10>>, <<89, 10>>, <<32, 121, 32, 10>>,
    <<110, 10>>, <<78, 10>>, <<32, 110, 32, 10>>,
    <<10>>, <<121, 101, 115, 10>>, <<110, 111, 10>>, <<120, 10>> }

AnswerStdin(n) ==
    {stdin \in AnswerLines \X AnswerLines : \A i \in 1..2 : i > n => stdin[i] = <<10>>}

\* a new game, or a new game in which one player rolled Claws and entered Tokyo
InitAnswer ==
    /\ \E controller \in Players \cup {NoneId} :
          /\ tokyo_controller_id = controller
          /\ victory_points = [p \in Players |-> IF p = controller THEN 1 ELSE 0]
    /\ hp = [p \in Players |-> StartHp]
    /\ energy = [p \in Players |-> 0]
    /\ last = NoOp
    /\ outcome = NoOutcome
    /\ calls = 0
    /\ pc = "ask"
    /\ current_player_index = 0
    /\ turn_count = 1

AnswerProcessRoll ==
    /\ pc = "ask"
    /\ \E player_id \in Players, results \in Rolls :
          \E stdin \in AnswerStdin(lines_read(CurrentGame, player_id, results)) :
             DoProcessRoll(player_id, results, stdin)
    /\ pc' = "answered"
    /\ calls' = calls + 1
    /\ UNCHANGED <<current_player_index, turn_count, outcome>>

NextAnswer == AnswerProcessRoll

SpecAnswer == InitAnswer /\ [][NextAnswer]_vars

\* ---------------------------------------------------------------- the claims
\* what the claims read of the last operation
Before == last.before
Active == last.player_id
Rolled == last.results
Asked == last.queries

\* the faces of a roll equal to f, counted one die at a time
RECURSIVE Tally(_, _, _)
Tally(results, f, i) ==
    IF i > Len(results) THEN 0
    ELSE (IF results[i] = f THEN 1 ELSE 0) + Tally(results, f, i + 1)

Faces(results, f) == Tally(results, f, 1)

\* the number-match bonus of a roll as the rules state it
Bonus(results) ==
    LET Three(f) == IF Faces(results, f) >= 3 THEN 1 ELSE 0
    IN  1 * Three("One") + 2 * Three("Two") + 3 * Three("Three")

Capped(x, cap) == IF x > cap THEN cap ELSE x

Floored(x) == IF x < 0 THEN 0 ELSE x

\* the answers, as the driver typed them
TypedY(line) == line \in { <<121, 10>>, <<89, 10>>, <<32, 121, 32, 10>> }
TypedN(line) == line \in { <<110, 10>>, <<78, 10>>, <<32, 110, 32, 10>> }

Alive == {p \in Players : hp[p] > 0}
Scorers == {p \in Alive : victory_points[p] >= 20}
First(S) == CHOOSE p \in S : \A q \in S : p <= q

\* C1: after any sequence of apply_tokyo_control_points and process_roll calls
\* every player's health is in 0..12 and every player's score is in 0..20.
C1_HealthAndScoreWithinCaps ==
    \A p \in Players :
        /\ hp[p] \in 0..12
        /\ victory_points[p] \in 0..20

\* C1 witness: an attack took a player with less health than the damage to 0
\* while a score stands at its cap.
C1_Witness ==
    /\ last.op = "process_roll"
    /\ \E p \in Players :
          /\ Before.hp[p] > 0
          /\ Before.hp[p] < Faces(Rolled, "Claw")
          /\ hp[p] = 0
    /\ \E p \in Players : victory_points[p] = 20

\* C2: in the turn loop the passive reward goes only to the player whose turn
\* is starting: whoever's score apply_tokyo_control_points raised is that player.
C2_RewardOnlyOnOwnTurn ==
    (pc = "check1" /\ last.op = "apply_tokyo_control_points") =>
        \A p \in Players :
            victory_points[p] > Before.victory_points[p] => p = current_player_id

\* C3: check_victory_condition returns a score victory for the first player in
\* registry order with hp > 0 and score >= 20 if there is one, else last
\* standing for the only player with hp > 0, else draw if nobody has hp > 0,
\* else nothing; a player with hp = 0 never wins by score.
C3_VictoryOutcome ==
    last.op = "check_victory_condition" =>
        /\ outcome =
             IF Scorers # {} THEN [kind |-> "vp", winner |-> First(Scorers)]
             ELSE IF Cardinality(Alive) = 1
                  THEN [kind |-> "last", winner |-> First(Alive)]
             ELSE IF Alive = {} THEN [kind |-> "draw", winner |-> NoneId]
             ELSE [kind |-> "none", winner |-> NoneId]
        /\ outcome.kind = "vp" => hp[outcome.winner] > 0

\* C3 witness: the check named a score winner although a player earlier in the
\* registry has a score of 20 too, with hp = 0.
C3_Witness ==
    /\ last.op = "check_victory_condition"
    /\ outcome.kind = "vp"
    /\ \E p \in Players :
          /\ p < outcome.winner
          /\ hp[p] = 0
          /\ victory_points[p] >= 20

\* C3 second witness: the check found nobody with hp > 0 and returned draw,
\* scores of 20 notwithstanding.
C3_WitnessDraw ==
    /\ last.op = "check_victory_condition"
    /\ outcome.kind = "draw"
    /\ \E p \in Players : victory_points[p] >= 20

\* the players an operation took from hp > 0 to hp = 0
Fallen == {p \in Players : Before.hp[p] > 0 /\ hp[p] = 0}

\* C4 as claimed: whenever two players both reach health 0 in the same
\* process_roll, the victory check that follows returns the draw outcome.
C4_TwoFallenIsDraw ==
    (last.op = "process_roll" /\ Cardinality(Fallen) >= 2) =>
        check_victory_condition(CurrentGame).kind = "draw"

\* C4 amended: whenever two players both reach health 0 in the same
\* process_roll, the victory check that follows returns draw exactly when no
\* player is left with hp > 0; when the active player is the only one left
\* with hp > 0 it names the active player the winner.
C4_TwoFallenDrawOnlyIfNobodyLeft ==
    (last.op = "process_roll" /\ Cardinality(Fallen) >= 2) =>
        LET o == check_victory_condition(CurrentGame)
        IN  /\ o.kind = "draw" <=> Alive = {}
            /\ hp[Active] > 0 => o.kind # "draw"
            /\ Alive = {Active} => o.kind \in {"vp", "last"} /\ o.winner = Active

\* C4 witness: two players fell in one process_roll and the active player is left.
C4_Witness ==
    /\ last.op = "process_roll"
    /\ Cardinality(Fallen) >= 2
    /\ Alive = {Active}

\* C4 second witness: two players fell in one process_roll of a dead occupant,
\* nobody is left and the check returns draw.
C4_WitnessDraw ==
    /\ last.op = "process_roll"
    /\ Cardinality(Fallen) >= 2
    /\ Alive = {}
    /\ check_victory_condition(CurrentGame).kind = "draw"

\* a concession query of the last call was answered y
ConcededYes ==
    \E i \in 1..Len(Asked) :
        /\ Asked[i].kind \in {"concede_after_attack", "concede_to_challenge"}
        /\ TypedY(Asked[i].line)

\* the entry query of the last call was not answered n
EnteredYes ==
    \E i \in 1..Len(Asked) : Asked[i].kind = "enter" /\ ~TypedN(Asked[i].line)

\* C5: the zone occupant changes only inside process_roll, and there only to
\* vacant on a concession answered yes or to the active player on an entry
\* answered yes; it is always vacant or one registered player.
C5_OccupantChangesOnlyByDecision ==
    /\ tokyo_controller_id \in Players \cup {NoneId}
    /\ last.op \in {"apply_tokyo_control_points", "check_victory_condition"} =>
           tokyo_controller_id = Before.tokyo_controller_id
    /\ (last.op = "process_roll" /\ tokyo_controller_id # Before.tokyo_controller_id) =>
           \/ tokyo_controller_id = NoneId /\ ConcededYes
           \/ tokyo_controller_id = Active /\ EnteredYes

\* C5 witness: a challenge took Tokyo from one player and gave it to another.
C5_Witness ==
    /\ last.op = "process_roll"
    /\ Before.tokyo_controller_id \in Players \ {Active}
    /\ tokyo_controller_id = Active

\* the active player of the last process_roll was outside Tokyo, rolled a Claw
\* and another player held Tokyo
Challenged ==
    /\ last.op = "process_roll"
    /\ Faces(Rolled, "Claw") >= 1
    /\ Before.tokyo_controller_id \in Players \ {Active}

\* the score of the active player after the matched numbers, by the rules
ScoreAfterMatch == Capped(Before.victory_points[Active] + Bonus(Rolled), 20)

\* C6: a challenge whose concession query is answered no asks nothing else,
\* leaves the occupant, gives no entry bonus and hurts nobody: the call changes
\* only the active player's number-match score, energy and healing.
C6_RefusedChallengeChangesNothingElse ==
    (/\ Challenged
     /\ Asked # <<>>
     /\ Asked[1].kind = "concede_to_challenge"
     /\ ~TypedY(Asked[1].line)) =>
        /\ Len(Asked) = 1
        /\ tokyo_controller_id = Before.tokyo_controller_id
        /\ \A p \in Players \ {Active} :
              /\ hp[p] = Before.hp[p]
              /\ victory_points[p] = Before.victory_points[p]
              /\ energy[p] = Before.energy[p]
        /\ victory_points[Active] = ScoreAfterMatch
        /\ energy[Active] = Capped(Before.energy[Active] + Faces(Rolled, "Energy"), 255)
        /\ hp[Active] = Capped(Before.hp[Active] + Faces(Rolled, "Heart"), 12)

\* C6 witness: a refused challenge of a player who also scored, healed and
\* gained energy with the roll.
C6_Witness ==
    /\ Challenged
    /\ Len(Asked) = 1
    /\ ~TypedY(Asked[1].line)
    /\ Bonus(Rolled) > 0
    /\ Faces(Rolled, "Heart") > 0
    /\ Faces(Rolled, "Energy") > 0

\* C7: when the occupant rolls k > 0 Claws every other player's health becomes
\* max(hp - k, 0) and the occupant's stays; then, after the damage, the
\* occupant is asked once whether to concede: on y Tokyo becomes vacant,
\* otherwise the occupant stays; no entry query is made.
C7_AttackFromTokyo ==
    (/\ last.op = "process_roll"
     /\ Before.tokyo_controller_id = Active
     /\ Faces(Rolled, "Claw") > 0) =>
        /\ \A p \in Players \ {Active} :
              hp[p] = Floored(Before.hp[p] - Faces(Rolled, "Claw"))
        /\ hp[Active] = Before.hp[Active]
        /\ Len(Asked) = 1
        /\ Asked[1].kind = "concede_after_attack"
        /\ Asked[1].hp = hp
        /\ Asked[1].tokyo_controller_id = Active
        /\ tokyo_controller_id = IF TypedY(Asked[1].line) THEN NoneId ELSE Active

\* C7 witness: an attack from Tokyo that took a player with less health than
\* the damage to 0, after which the occupant conceded.
C7_Witness ==
    /\ last.op = "process_roll"
    /\ Before.tokyo_controller_id = Active
    /\ \E p \in Players \ {Active} :
          /\ Before.hp[p] > 0
          /\ Before.hp[p] < Faces(Rolled, "Claw")
          /\ hp[p] = 0
    /\ tokyo_controller_id = NoneId

\* the last process_roll came to a vacant Tokyo with a Claw: Tokyo was vacant,
\* or its occupant conceded to the challenge
CameToVacantTokyo ==
    /\ last.op = "process_roll"
    /\ Faces(Rolled, "Claw") >= 1
    /\ \/ Before.tokyo_controller_id = NoneId
       \/ /\ Challenged
          /\ Asked # <<>>
          /\ Asked[1].kind = "concede_to_challenge"
          /\ TypedY(Asked[1].line)

\* C8: a non-occupant rolling a Claw with Tokyo vacant (from the start, or by
\* the occupant's concession to this challenge) is asked whether to enter: on
\* yes the active player becomes the occupant and the score gains 1 up to 20;
\* on no Tokyo is left vacant and the score gains nothing.
C8_EntryToVacantTokyo ==
    CameToVacantTokyo =>
        LET n == Len(Asked)
        IN  /\ n = IF Before.tokyo_controller_id = NoneId THEN 1 ELSE 2
            /\ Asked[n].kind = "enter"
            /\ Asked[n].tokyo_controller_id = NoneId
            /\ IF TypedN(Asked[n].line)
               THEN /\ tokyo_controller_id = NoneId
                    /\ victory_points[Active] = ScoreAfterMatch
               ELSE /\ tokyo_controller_id = Active
                    /\ victory_points[Active] = Capped(ScoreAfterMatch + 1, 20)

\* C8 witness: the occupant conceded to the challenge and the challenger
\* declined to enter, so Tokyo is vacant.
C8_Witness ==
    /\ Challenged
    /\ Len(Asked) = 2
    /\ TypedY(Asked[1].line)
    /\ TypedN(Asked[2].line)
    /\ tokyo_controller_id = NoneId

\* C8 second witness: the entry was taken at a score of 19 or 20.
C8_WitnessEnteredAtCap ==
    /\ CameToVacantTokyo
    /\ tokyo_controller_id = Active
    /\ ScoreAfterMatch = 20
    /\ victory_points[Active] = 20

\* C9: the number-match score added by a roll is 1, 2 and 3 for three or more
\* Ones, Twos and Threes, once per face and added up, and the score after it
\* is min(old score + bonus, 20); only the entry bonus can come on top.
C9_NumberMatchScore ==
    last.op = "process_roll" =>
        /\ last.vp_after_match = ScoreAfterMatch
        /\ victory_points[Active] =
              IF tokyo_controller_id = Active /\ Before.tokyo_controller_id # Active
              THEN Capped(ScoreAfterMatch + 1, 20)
              ELSE ScoreAfterMatch

\* C9 witness: 19 plus a bonus of 3 from four or more Threes gives 20.
C9_Witness ==
    /\ last.op = "process_roll"
    /\ Before.victory_points[Active] = 19
    /\ Faces(Rolled, "Three") >= 4
    /\ Bonus(Rolled) = 3
    /\ last.vp_after_match = 20

\* C9 second witness: three Ones and three Twos give 1 + 2.
C9_WitnessAdditive ==
    /\ last.op = "process_roll"
    /\ Faces(Rolled, "One") = 3
    /\ Faces(Rolled, "Two") = 3
    /\ Before.victory_points[Active] = 0
    /\ victory_points[Active] = 3

\* C10: healing goes by the occupancy at the start of the call: the occupant's
\* Hearts change nothing, anyone else's health becomes min(hp + Hearts, 12);
\* no other player's health is raised.
C10_HealingOutsideTokyoOnly ==
    last.op = "process_roll" =>
        /\ hp[Active] =
              IF Before.tokyo_controller_id = Active
              THEN Before.hp[Active]
              ELSE Capped(Before.hp[Active] + Faces(Rolled, "Heart"), 12)
        /\ \A p \in Players \ {Active} : hp[p] <= Before.hp[p]

\* C10 witness: the occupant rolled Hearts below full health, was not healed,
\* and conceded Tokyo in the same call.
C10_Witness ==
    /\ last.op = "process_roll"
    /\ Before.tokyo_controller_id = Active
    /\ Faces(Rolled, "Heart") > 0
    /\ Before.hp[Active] < 12
    /\ hp[Active] = Before.hp[Active]
    /\ tokyo_controller_id = NoneId

\* C10 second witness: a player outside Tokyo healed up to the cap of 12 and
\* entered Tokyo in the same call.
C10_WitnessHealedAndEntered ==
    /\ last.op = "process_roll"
    /\ Before.tokyo_controller_id # Active
    /\ Before.hp[Active] + Faces(Rolled, "Heart") > 12
    /\ hp[Active] = 12
    /\ tokyo_controller_id = Active

\* C11: when the occupant's roll has no Claw nobody is hurt, no concession or
\* entry query is asked, the occupant stays, and the occupant's health is what
\* it was, whatever the number of Hearts.
C11_OccupantWithoutClaws ==
    (/\ last.op = "process_roll"
     /\ Before.tokyo_controller_id = Active
     /\ Faces(Rolled, "Claw") = 0) =>
        /\ hp = Before.hp
        /\ Asked = <<>>
        /\ tokyo_controller_id = Active

\* C11 witness: a wounded occupant rolled Hearts and no Claw next to a wounded
\* player; nobody's health moved and the occupant stays.
C11_Witness ==
    /\ last.op = "process_roll"
    /\ Before.tokyo_controller_id = Active
    /\ Faces(Rolled, "Claw") = 0
    /\ Faces(Rolled, "Heart") >= 2
    /\ Before.hp[Active] = 4
    /\ \E p \in Players \ {Active} : Before.hp[p] = 4
    /\ hp = Before.hp
    /\ tokyo_controller_id = Active

\* the positions of main after a break on a victory outcome
GameOver == {"over_after_tokyo", "over_after_roll"}

\* C12: in the turn loop a victory check that reports an outcome ends the game
\* on the spot: after the passive reward that is before any dice are rolled
\* (process_roll is called only after a check that found no outcome in the
\* state it is called in), and after either check no operation follows, so
\* health, scores, energy and the occupant stay what the check saw.
C12_OutcomeEndsTheGame ==
    /\ (last.op = "check_victory_condition" /\ outcome.kind # "none") =>
           /\ pc \in GameOver
           /\ CurrentGame = Before
           /\ ~ENABLED NextMain
    /\ pc \in GameOver =>
           /\ last.op = "check_victory_condition"
           /\ outcome.kind # "none"
           /\ outcome = check_victory_condition(CurrentGame)
    /\ ENABLED MainProcessRoll =>
           /\ last.op = "check_victory_condition"
           /\ outcome.kind = "none"
           /\ CurrentGame = Before
           /\ check_victory_condition(CurrentGame).kind = "none"
    /\ last.op = "process_roll" => outcome.kind = "none"

\* C12 witness: the passive reward at the start of another player's turn took
\* the occupant from 19 to 20 and the game ended there, before the dice.
C12_Witness ==
    /\ pc = "over_after_tokyo"
    /\ outcome.kind = "vp"
    /\ outcome.winner = tokyo_controller_id
    /\ outcome.winner # current_player_id
    /\ victory_points[outcome.winner] = 20

\* C12 second witness: the check after the roll ended the game.
C12_WitnessAfterRoll ==
    /\ pc = "over_after_roll"
    /\ outcome.kind = "vp"
    /\ outcome.winner = current_player_id

\* C13: apply_tokyo_control_points with Tokyo occupied sets the occupant's
\* score to min(score + 2, 20) and changes nothing else; with Tokyo vacant it
\* changes nothing.
C13_PassiveReward ==
    last.op = "apply_tokyo_control_points" =>
        /\ hp = Before.hp
        /\ energy = Before.energy
        /\ tokyo_controller_id = Before.tokyo_controller_id
        /\ \A p \in Players :
              victory_points[p] =
                  IF p = Before.tokyo_controller_id
                  THEN Capped(Before.victory_points[p] + 2, 20)
                  ELSE Before.victory_points[p]

\* C13 witness: the reward took an occupant from 19 to the cap of 20.
C13_Witness ==
    /\ last.op = "apply_tokyo_control_points"
    /\ Before.tokyo_controller_id \in Players
    /\ Before.victory_points[Before.tokyo_controller_id] = 19
    /\ victory_points[Before.tokyo_controller_id] = 20

\* C13 second witness: the call with Tokyo vacant left every score as it was.
C13_WitnessVacant ==
    /\ last.op = "apply_tokyo_control_points"
    /\ Before.tokyo_controller_id = NoneId
    /\ victory_points = Before.victory_points
    /\ \E p \in Players : victory_points[p] = 19

\* C14: every process_roll adds the number of Energy faces to the active
\* player's energy, up to 255, in Tokyo or outside it and whatever is answered
\* (a refused challenge included); nobody else's energy changes.
C14_EnergyGain ==
    last.op = "process_roll" =>
        /\ energy[Active] =
              Capped(Before.energy[Active] + Faces(Rolled, "Energy"), 255)
        /\ \A p \in Players \ {Active} : energy[p] = Before.energy[p]

\* C14 witness: a challenger at 255 rolled Energy, the occupant refused to
\* concede, and the challenger's energy is still 255.
C14_Witness ==
    /\ Challenged
    /\ Len(Asked) = 1
    /\ ~TypedY(Asked[1].line)
    /\ Faces(Rolled, "Energy") >= 1
    /\ Before.energy[Active] = 255
    /\ energy[Active] = 255

\* C14 second witness: the occupant gained the Energy of the roll.
C14_WitnessOccupant ==
    /\ last.op = "process_roll"
    /\ Before.tokyo_controller_id = Active
    /\ Faces(Rolled, "Energy") >= 1
    /\ energy[Active] = Before.energy[Active] + Faces(Rolled, "Energy")

\* C15: a player at hp 0 who holds Tokyo goes on holding it: no operation
\* vacates Tokyo for that, the passive reward is still paid to that player, and
\* Tokyo changes only when a concession query is answered y.
C15_DeadOccupantStays ==
    \A q \in Players :
        (/\ last.op # "none"
         /\ Before.tokyo_controller_id = q
         /\ Before.hp[q] = 0 \/ hp[q] = 0) =>
            /\ tokyo_controller_id # q => last.op = "process_roll" /\ ConcededYes
            /\ last.op = "apply_tokyo_control_points" =>
                   victory_points[q] = Capped(Before.victory_points[q] + 2, 20)
            /\ hp[q] = Before.hp[q]

\* C15 witness: the passive reward was paid to an occupant with hp 0.
C15_Witness ==
    /\ last.op = "apply_tokyo_control_points"
    /\ Before.tokyo_controller_id \in Players
    /\ hp[Before.tokyo_controller_id] = 0
    /\ victory_points[Before.tokyo_controller_id] = 3
    /\ tokyo_controller_id = Before.tokyo_controller_id

\* C15 second witness: an occupant with hp 0 was challenged, did not concede
\* and holds Tokyo still.
C15_WitnessChallenged ==
    /\ Challenged
    /\ Before.hp[Before.tokyo_controller_id] = 0
    /\ Len(Asked) = 1
    /\ ~TypedY(Asked[1].line)
    /\ tokyo_controller_id = Before.tokyo_controller_id
    /\ hp[tokyo_controller_id] = 0

\* C16: at both concession queries every answer but y or Y (the empty line
\* included) is a no; at the entry query every answer but n or N (the empty
\* line included) is a yes. The answer is the line without the white space
\* around it.
C16_DefaultAnswers ==
    last.op = "process_roll" =>
        \A i \in 1..Len(Asked) :
            LET line == Asked[i].line
            IN  /\ Asked[i].kind = "concede_after_attack" =>
                       tokyo_controller_id = IF TypedY(line) THEN NoneId ELSE Active
                /\ Asked[i].kind = "concede_to_challenge" =>
                       IF TypedY(line)
                       THEN Len(Asked) = 2 /\ Asked[2].kind = "enter"
                       ELSE /\ Len(Asked) = 1
                            /\ tokyo_controller_id = Before.tokyo_controller_id
                /\ Asked[i].kind = "enter" =>
                       tokyo_controller_id = IF TypedN(line) THEN NoneId ELSE Active

\* C16 witness: the occupant answered "yes" to the challenge, which is not y:
\* the occupant stays and the challenger is asked nothing.
C16_Witness ==
    /\ Challenged
    /\ Len(Asked) = 1
    /\ Asked[1].line = <<121, 101, 115, 10>>
    /\ tokyo_controller_id = Before.tokyo_controller_id

\* C16 second witness: the occupant answered the query after the attack with
\* the empty line and stays.
C16_WitnessEmptyConcession ==
    /\ last.op = "process_roll"
    /\ Before.tokyo_controller_id = Active
    /\ Len(Asked) = 1
    /\ Asked[1].line = <<10>>
    /\ tokyo_controller_id = Active

\* C16 third witness: the occupant conceded with Y and the challenger entered
\* with the empty line.
C16_WitnessEmptyEntry ==
    /\ Challenged
    /\ Len(Asked) = 2
    /\ Asked[1].line = <<89, 10>>
    /\ Asked[2].line = <<10>>
    /\ tokyo_controller_id = Active

\* C16 fourth witness: "no" at the entry query is not n, and the player entered.
C16_WitnessNoEnters ==
    /\ last.op = "process_roll"
    /\ Before.tokyo_controller_id = NoneId
    /\ Len(Asked) = 1
    /\ Asked[1].line = <<110, 111, 10>>
    /\ tokyo_controller_id = Active

\* C17: in the turn loop whoever holds Tokyo has hp > 0: nobody's hp goes down
\* while holding Tokyo, and nobody with hp 0 comes to hold it.
C17_OccupantAlive ==
    /\ tokyo_controller_id \in Players => hp[tokyo_controller_id] > 0
    /\ last.op # "none" =>
           /\ Before.tokyo_controller_id \in Players =>
                  hp[Before.tokyo_controller_id] >= Before.hp[Before.tokyo_controller_id]
           /\ (tokyo_controller_id \in Players
                /\ tokyo_controller_id # Before.tokyo_controller_id) =>
                  /\ tokyo_controller_id = Active
                  /\ Before.hp[Active] > 0

\* C17 witness: a player died of an attack from Tokyo, the occupant was
\* challenged after that, refused to concede and holds Tokyo, unhurt.
C17_Witness ==
    /\ Challenged
    /\ \E p \in Players : Before.hp[p] = 0
    /\ Len(Asked) = 1
    /\ tokyo_controller_id = Before.tokyo_controller_id
    /\ hp[tokyo_controller_id] = StartHp

\* C17 second witness: a wounded player took Tokyo over from the occupant who
\* had wounded them.
C17_WitnessTakeover ==
    /\ Challenged
    /\ Len(Asked) = 2
    /\ tokyo_controller_id = Active
    /\ hp[Active] \in 1..(StartHp - 1)

\* C18: in the turn loop somebody always has hp > 0: the player whose turn it
\* is has hp > 0 and loses none in the own process_roll, so the victory check
\* never returns the draw of a game with nobody left.
C18_SomebodyAlive ==
    /\ Alive # {}
    /\ outcome.kind # "draw"
    /\ check_victory_condition(CurrentGame).kind # "draw"
    /\ last.op = "process_roll" =>
           /\ Before.hp[Active] > 0
           /\ hp[Active] >= Before.hp[Active]

\* C18 witness: the occupant's attack took every other player to 0 at once and
\* the check named the occupant the last one standing.
C18_Witness ==
    /\ pc = "over_after_roll"
    /\ outcome.kind = "last"
    /\ outcome.winner = tokyo_controller_id
    /\ Alive = {outcome.winner}
    /\ \A p \in Players \ {outcome.winner} : hp[p] = 0

\* C19: in the turn loop a player at hp 0 stays as they are: no turn is played
\* for a player with hp 0, and no operation changes the hp, the score or the
\* energy of a player who had hp 0 before it.
C19_EliminationIsPermanent ==
    /\ pc \in {"check1", "roll", "check2"} => hp[current_player_id] > 0
    /\ last.op # "none" =>
           \A p \in Players :
               Before.hp[p] = 0 =>
                   /\ hp[p] = 0
                   /\ victory_points[p] = Before.victory_points[p]
                   /\ energy[p] = Before.energy[p]
                   /\ last.op \in {"apply_tokyo_control_points", "process_roll"} =>
                          Active # p

\* C19 witness: the turn of a dead player was skipped and the next player
\* rolled; the dead player, who had scored and gained energy, is as before.
C19_Witness ==
    /\ last.op = "process_roll"
    /\ \E p \in Players :
          /\ Before.hp[p] = 0
          /\ Active = (p % NumPlayers) + 1
          /\ Before.victory_points[p] > 0
          /\ Before.energy[p] > 0
          /\ hp[p] = 0
          /\ victory_points[p] = Before.victory_points[p]
          /\ energy[p] = Before.energy[p]

\* the loop of main has ended
Terminated == pc \in GameOver \cup {"over_turn_limit"}

\* the dead players the skip step has to pass before it finds a live one
ToSkip ==
    IF Alive = {} THEN NumPlayers
    ELSE CHOOSE d \in 0..(NumPlayers - 1) :
             /\ hp[((player_index + d) % NumPlayers) + 1] > 0
             /\ \A e \in 0..(d - 1) : hp[((player_index + e) % NumPlayers) + 1] = 0

\* the steps the loop can still take at most: the turns left, each with its
\* skip steps, passive reward, two checks and roll
StepsLeft ==
    IF Terminated THEN 0
    ELSE 1 + (TurnLimit + 1 - turn_count) * (NumPlayers + 4)
           + (CASE pc = "top" -> 3 + ToSkip
                [] pc = "check1" -> 2
                [] pc = "roll" -> 1
                [] OTHER -> 0)

\* C20: with every query answered the loop of main terminates, by a victory
\* outcome or when turn_count passes 1000 (1000 turns completed): until it has
\* ended the loop can take a step that changes the state, every step brings
\* the end nearer, and wherever a dead player is to be skipped a player with
\* hp > 0 is there to be found.
C20_MainTerminates ==
    /\ [](Terminated \/ ENABLED <<NextMain>>_vars)
    /\ [][StepsLeft' < StepsLeft]_vars
    /\ [](StepsLeft >= 0 /\ turn_count <= TurnLimit + 1)
    /\ [](pc = "over_turn_limit" <=> turn_count = TurnLimit + 1)
    /\ [](pc = "top" => Alive # {} /\ ToSkip < NumPlayers)

\* C20 once more, as termination under the weak fairness of SpecMainLate:
\* the loop of main ends in every run.
C20_EventuallyTerminated == <>Terminated

\* C20 witness: the loop stopped at the turn limit, after skipping a dead
\* player on the way.
C20_Witness ==
    /\ pc = "over_turn_limit"
    /\ turn_count = TurnLimit + 1
    /\ \E p \in Players : hp[p] = 0
    /\ calls = MaxTurns

\* C20 second witness: the loop ended by a victory outcome in turn 1000.
C20_WitnessVictory ==
    /\ pc \in GameOver
    /\ turn_count = TurnLimit
    /\ outcome.kind \in {"vp", "last"}

====
